---------------------------- MODULE Spec2Model ----------------------------
(***************************************************************************)
(* Random-graph UD-MIS (classical): the UDMIS energy model of              *)
(* Week2_Rydberg_Atoms/Task1.ipynb and the single-vertex Metropolis step   *)
(* that drives it.                                                         *)
(*                                                                         *)
(* Numbers.  Coordinates are integers in units of 1/CoordScale, energies   *)
(* and the interaction strength u are integers in units of 1/UScale, so    *)
(* u = 1.35 is 135 and the energy -3.0 is -300.  Floating-point rounding   *)
(* is not modelled.  Arrays are functions over 0 .. n-1, as in Python.     *)
(***************************************************************************)
EXTENDS Integers, FiniteSets, Sequences, TLC

\* Fixed-point scale of a coordinate: 1.0 (the threshold of line 71) is 1000.
CoordScale == 1000
\* Fixed-point scale of u and of an energy: 1.0 is 100, u = 1.35 is 135.
UScale == 100

\* Largest number of vertices of the enumerated graphs.
MaxVertices == 3

\* The points the enumerated graphs draw their vertices from.  (0,0)-(600,800)
\* is at distance exactly 1.0; (0,0)-(1000,1) and (1000,1)-(2000,0) are just
\* beyond it; (600,800)-(1000,1) is well within it.
Points == { <<0, 0>>, <<600, 800>>, <<1000, 1>>, <<2000, 0>> }

\* The reference graph of the notebook, coordinates rounded to 3 decimals
\* (no pair of its vertices is within 0.08 of the threshold).
RefGraph ==
    (0 :> <<346, 1498>>) @@ (1 :> <<632, 2575>>) @@ (2 :> <<1391, 2165>>) @@
    (3 :> <<664, 672>>) @@ (4 :> <<866, 3388>>) @@ (5 :> <<1164, 1082>>)

\* u = 1.35 of the notebook.
RefU == 135

\* The occupations [False False True True True False] of the recorded output.
RefOccupations ==
    (0 :> FALSE) @@ (1 :> FALSE) @@ (2 :> TRUE) @@
    (3 :> TRUE) @@ (4 :> TRUE) @@ (5 :> FALSE)

\* Interaction strengths tried: 0, 0.5, 1.0, 1.35, 2.0.
UValues == { 0, 50, 100, RefU, 200 }

\* Temperatures tried; only the sign of T enters the acceptance rule's shape.
TValues == { 0, 1 }

\* Coordinate lists of n vertices.
GraphsOfLen(n) == [0 .. n - 1 -> Points]

\* Every coordinate list tried: all lists up to MaxVertices points, and the
\* reference graph.
Graphs == UNION { GraphsOfLen(n) : n \in 0 .. MaxVertices } \cup { RefGraph }

\* len(graph)
Len0(g) == Cardinality(DOMAIN g)

\* Boolean arrays of length n (np.random.rand(n) < 0.5 can give any of them).
Occupations(n) == [0 .. n - 1 -> BOOLEAN]

-----------------------------------------------------------------------------
(* find_edges *)

\* Mutant of Dist2: the y difference is left out.
Dist2_XOnly(p, q) == (p[1] - q[1]) * (p[1] - q[1])

\* (x_i - x_j)**2 + (y_i - y_j)**2
Dist2(p, q) == (p[1] - q[1]) * (p[1] - q[1]) + (p[2] - q[2]) * (p[2] - q[2])

\* Mutant of WithinUnit: a strict comparison, dij < 1.0.
WithinUnit_Strict(p, q) ==
    (p[1] - q[1]) * (p[1] - q[1]) + (p[2] - q[2]) * (p[2] - q[2]) < CoordScale * CoordScale

\* np.sqrt(...) <= 1.0.  The square root is monotone and sqrt(1.0) = 1.0, so
\* the test is the comparison of the squares.
WithinUnit(p, q) == Dist2(p, q) <= CoordScale * CoordScale

\* np.zeros((n, n), dtype=bool)
Zeros(n) == [i \in 0 .. n - 1 |-> [j \in 0 .. n - 1 |-> FALSE]]

\* The inner loop, for j in range(i+1, n), from index j on.
RECURSIVE FindEdgesInner(_, _, _, _, _)
FindEdgesInner(g, edges, i, j, n) ==
    IF j >= n THEN edges
    ELSE FindEdgesInner(g,
            IF WithinUnit(g[i], g[j])
            THEN [edges EXCEPT ![i][j] = TRUE, ![j][i] = TRUE]
            ELSE edges,
            i, j + 1, n)

\* The outer loop, for i in range(n-1), from index i on.
RECURSIVE FindEdgesOuter(_, _, _, _)
FindEdgesOuter(g, edges, i, n) ==
    IF i >= n - 1 THEN edges
    ELSE FindEdgesOuter(g, FindEdgesInner(g, edges, i, i + 1, n), i + 1, n)

\* find_edges of an instance with num_vertices = n.  The coordinates it reads
\* are those of the module-level name graph (g), not self.graph.
find_edges(n, g) == FindEdgesOuter(g, Zeros(n), 0, n)

\* find_edges raises IndexError: graph[j] is read for every j < n once n >= 2.
FindEdgesRaises(n, g) == n >= 2 /\ Len0(g) < n

-----------------------------------------------------------------------------
(* energy *)

\* A bool used as a number.
B2I(b) == IF b THEN 1 ELSE 0

\* The inner loop of energy, for j in range(i+1, n), from index j on; acc is
\* interaction_term.
RECURSIVE EnergyInner(_, _, _, _)
EnergyInner(self, i, j, acc) ==
    IF j >= self.num_vertices THEN acc
    ELSE EnergyInner(self, i, j + 1,
            IF self.edges[i][j]
            THEN acc + B2I(self.occupations[i] /\ self.occupations[j])
            ELSE acc)

\* The outer loop of energy, for i in range(n-1), from index i on; acc holds
\* interaction_term and vertex_term.
RECURSIVE EnergyOuter(_, _, _)
EnergyOuter(self, i, acc) ==
    IF i >= self.num_vertices - 1 THEN acc
    ELSE EnergyOuter(self, i + 1,
            [interaction_term |-> EnergyInner(self, i, i + 1, acc.interaction_term),
             vertex_term |-> acc.vertex_term + B2I(self.occupations[i])])

\* Mutant of energy: the last vertex, which the outer loop skips, is not added.
energy_MissLast(self, uu) ==
    LET acc == EnergyOuter(self, 0, [interaction_term |-> 0, vertex_term |-> 0])
    IN  uu * acc.interaction_term - UScale * acc.vertex_term

\* energy() raises IndexError at occupations[num_vertices-1] of an empty array.
EnergyRaises(self) == self.num_vertices = 0

\* energy(), for num_vertices >= 1.  uu is the module-level name u, which the
\* return statement reads (not self.u).
energy(self, uu) ==
    LET acc == EnergyOuter(self, 0, [interaction_term |-> 0, vertex_term |-> 0])
        vertex_term == acc.vertex_term + B2I(self.occupations[self.num_vertices - 1])
    IN  uu * acc.interaction_term - UScale * vertex_term

-----------------------------------------------------------------------------
(* energy_diff, rand_vertex *)

\* connections = np.where(self.edges[i,:])[0]
Connections(self, i) == { j \in 0 .. self.num_vertices - 1 : self.edges[i][j] }

\* sum(self.occupations[connections])
NumAdjacentOccupied(self, i) ==
    Cardinality({ j \in Connections(self, i) : self.occupations[j] })

\* Mutant of energy_diff: every neighbour is counted, occupied or not.
energy_diff_AllNeighbours(self, uu, i) ==
    LET k == Cardinality(Connections(self, i))
        vertex_term_change == IF self.occupations[i] THEN UScale ELSE -UScale
        interaction_term_change == IF self.occupations[i] THEN -(uu * k) ELSE uu * k
    IN  interaction_term_change + vertex_term_change

\* Mutant of energy_diff: the vertex term changes with the wrong sign.
energy_diff_VertexSign(self, uu, i) ==
    LET k == NumAdjacentOccupied(self, i)
        vertex_term_change == IF self.occupations[i] THEN -UScale ELSE UScale
        interaction_term_change == IF self.occupations[i] THEN -(uu * k) ELSE uu * k
    IN  interaction_term_change + vertex_term_change

\* Mutant of energy_diff: the interaction term changes with the same sign in
\* both branches.
energy_diff_InteractionSign(self, uu, i) ==
    LET k == NumAdjacentOccupied(self, i)
        vertex_term_change == IF self.occupations[i] THEN UScale ELSE -UScale
    IN  uu * k + vertex_term_change

\* energy_diff(i); uu is the module-level name u.
energy_diff(self, uu, i) ==
    LET k == NumAdjacentOccupied(self, i)
        vertex_term_change == IF self.occupations[i] THEN UScale ELSE -UScale
        interaction_term_change == IF self.occupations[i] THEN -(uu * k) ELSE uu * k
    IN  interaction_term_change + vertex_term_change

\* The values np.random.randint(num_vertices) can return; it raises
\* ValueError when num_vertices = 0.
rand_vertex(self) == 0 .. self.num_vertices - 1

\* The instance with occupations[i] toggled.
Flip(self, i) ==
    [self EXCEPT !.occupations[i] = ~self.occupations[i]]

-----------------------------------------------------------------------------
(* State *)

VARIABLES
    u,        \* the module-level name u (line 131)
    graph,    \* the module-level name graph (lines 132-138)
    udmis,    \* the UDMIS instance: its fields u, graph, num_vertices,
              \* occupations, edges
    pc,       \* "start": no instance yet; "ready": constructed; "running":
              \* at least one step taken; "raised": an exception propagated
    E,        \* the energy returned by the latest step (E = udmis.mc_step(T))
    last,     \* the latest step: the vertex proposed, T, whether it was accepted
    tick      \* parity of the driver's step index t

vars == <<u, graph, udmis, pc, E, last, tick>>

\* The fields before the constructor has run.
NoUdmis ==
    [u |-> 0, graph |-> <<>>, num_vertices |-> 0, occupations |-> <<>>, edges |-> <<>>]

NoStep == [i |-> 0, T |-> 0, accepted |-> FALSE]

Constructed == pc \in {"ready", "running"}

\* The module-level names are bound (cell of lines 131-138) to one of the
\* given values; udmis is not yet.
InitWith(us, graphs) ==
    /\ u \in us
    /\ graph \in graphs
    /\ udmis = NoUdmis
    /\ pc = "start"
    /\ E = 0
    /\ last = NoStep
    /\ tick = 0

Init == InitWith(UValues, Graphs)

-----------------------------------------------------------------------------
(* Operations *)

\* UDMIS.__init__(uArg, gArg), with occ the outcome of np.random.rand(n) < 0.5.
\* find_edges runs last and reads the module-level graph; when it raises, the
\* exception leaves __init__ and no instance is bound.
UDMIS_init(uArg, gArg, occ) ==
    LET n == Len0(gArg) IN
    /\ occ \in Occupations(n)
    /\ IF FindEdgesRaises(n, graph)
       THEN /\ pc' = "raised"
            /\ udmis' = udmis
       ELSE /\ pc' = "ready"
            /\ udmis' = [u |-> uArg, graph |-> gArg, num_vertices |-> n,
                         occupations |-> occ, edges |-> find_edges(n, graph)]
    /\ UNCHANGED <<u, graph, E, last, tick>>

\* udmis = UDMIS(u, graph)   (line 140)
Construct ==
    /\ pc = "start"
    /\ \E occ \in Occupations(Len0(graph)) : UDMIS_init(u, graph, occ)

\* The outcomes of the acceptance rule: a flip with dE <= 0 is accepted; one
\* with dE > 0 is accepted with probability exp(-dE/T) when T > 0 and never
\* when T <= 0.
Accepts(T, dE) ==
    IF dE <= 0 THEN {TRUE}
    ELSE IF T <= 0 THEN {FALSE}
    ELSE {TRUE, FALSE}

\* One step at temperature T proposing vertex i: the flip is applied when
\* accepted, and the running total energy is returned.
McStep(T, i) ==
    /\ Constructed
    /\ udmis.num_vertices > 0
    /\ i \in rand_vertex(udmis)
    /\ LET dE == energy_diff(udmis, u, i)
           current_energy == IF pc = "ready" THEN energy(udmis, u) ELSE E
       IN  \E accepted \in Accepts(T, dE) :
             /\ udmis' = IF accepted THEN Flip(udmis, i) ELSE udmis
             /\ E' = IF accepted THEN current_energy + dE ELSE current_energy
             /\ last' = [i |-> i, T |-> T, accepted |-> accepted]
    /\ pc' = "running"
    /\ tick' = 1 - tick
    /\ UNCHANGED <<u, graph>>

\* A step on an instance without vertices: rand_vertex raises ValueError.
McStepRaises ==
    /\ Constructed
    /\ udmis.num_vertices = 0
    /\ pc' = "raised"
    /\ UNCHANGED <<u, graph, udmis, E, last, tick>>

\* The driver loop body at any temperature.
Step == \E T \in TValues : \E i \in rand_vertex(udmis) : McStep(T, i)

Next ==
    \/ Construct
    \/ Step
    \/ McStepRaises

Spec == Init /\ [][Next]_vars

-----------------------------------------------------------------------------
(* The greedy limit: every step is taken at T <= 0 *)

GreedyT == { T \in TValues : T <= 0 }

\* Vertex indices of the enumerated graphs.
VertexIds == 0 .. MaxVertices - 1

\* Coordinate lists of the greedy runs: points on a line, one unit apart, so
\* that the graphs are paths, cliques (repeated points) and their unions.
GreedyGraphs ==
    UNION { [0 .. n - 1 -> { <<0, 0>>, <<1000, 0>>, <<2000, 0>> }] : n \in 0 .. MaxVertices }

\* Interaction strengths of the greedy runs: 0.5 and 1.0, for which a flip can
\* leave the energy unchanged, and 1.35, for which none can.
GreedyU == { 50, UScale, RefU }

InitGreedy == InitWith(GreedyU, GreedyGraphs)

\* A step at T <= 0 that proposes vertex i.
GreedyStep(i) == \E T \in GreedyT : McStep(T, i)

\* A step at T <= 0 that proposes a vertex whose flip lowers the energy.
Descent ==
    \E i \in VertexIds :
        /\ Constructed
        /\ i \in rand_vertex(udmis)
        /\ energy_diff(udmis, u, i) < 0
        /\ GreedyStep(i)

NextGreedy ==
    \/ Construct
    \/ \E i \in VertexIds : GreedyStep(i)
    \/ McStepRaises

\* The cells run, and rand_vertex proposes every vertex again and again.
SpecGreedy ==
    /\ InitGreedy
    /\ [][NextGreedy]_vars
    /\ WF_vars(Construct)
    /\ \A i \in VertexIds : WF_vars(GreedyStep(i))

-----------------------------------------------------------------------------
(* Instances whose arguments are not the module-level names *)

\* Coordinate lists of at most two points on a line.
RebindGraphs ==
    UNION { [0 .. n - 1 -> { <<0, 0>>, <<1000, 0>>, <<2000, 0>> }] : n \in 0 .. 2 }

RebindU == { UScale, RefU }

InitRebind == InitWith(RebindU, RebindGraphs)

\* udmis = UDMIS(uArg, gArg) with any arguments.
ConstructWith ==
    /\ pc = "start"
    /\ \E uArg \in RebindU : \E gArg \in RebindGraphs :
         \E occ \in Occupations(Len0(gArg)) : UDMIS_init(uArg, gArg, occ)

\* The cell of lines 131-138 is run again with other values (not the last
\* line, which would build a new instance), before the driver loop starts.
Rebind ==
    /\ pc \in {"start", "ready"}
    /\ \E u2 \in RebindU : \E g2 \in RebindGraphs :
         /\ <<u2, g2>> /= <<u, graph>>
         /\ u' = u2
         /\ graph' = g2
    /\ UNCHANGED <<udmis, pc, E, last, tick>>

NextRebind ==
    \/ ConstructWith
    \/ Rebind
    \/ Step
    \/ McStepRaises

SpecRebind == InitRebind /\ [][NextRebind]_vars

-----------------------------------------------------------------------------
(* Vocabulary of the properties *)

Vertices == 0 .. udmis.num_vertices - 1

\* Pairs i < j joined by an edge whose endpoints are both occupied.
OccupiedEdges ==
    { p \in Vertices \X Vertices :
        /\ p[1] < p[2]
        /\ udmis.edges[p[1]][p[2]]
        /\ udmis.occupations[p[1]]
        /\ udmis.occupations[p[2]] }

OccupiedVertices == { i \in Vertices : udmis.occupations[i] }

\* The instance with another occupation array.
WithOccupations(occ) == [udmis EXCEPT !.occupations = occ]

\* No two occupied vertices are adjacent.
Independent == OccupiedEdges = {}

\* Independent, and every unoccupied vertex has an occupied neighbour.
MaximalIndependent ==
    /\ Independent
    /\ \A i \in Vertices :
         ~udmis.occupations[i] =>
            \E j \in Vertices : udmis.edges[i][j] /\ udmis.occupations[j]

\* No single-vertex flip lowers the energy.
NoNegativeFlip == \A i \in Vertices : energy_diff(udmis, u, i) >= 0

\* Every single-vertex flip raises the energy.
AllFlipsPositive == \A i \in Vertices : energy_diff(udmis, u, i) > 0

\* The sizes of the independent sets of the instance's graph.
IndependentSizes ==
    { Cardinality(S) : S \in { S \in SUBSET Vertices :
        \A i \in S : \A j \in S : ~udmis.edges[i][j] } }

IsReference == graph = RefGraph /\ u = RefU

-----------------------------------------------------------------------------
(* C1 *)

\* C1: for every vertex i of every constructed instance, energy_diff(i) equals
\* energy() of the configuration with only n_i toggled minus energy() of the
\* configuration itself.
C1_DeltaFullConsistency ==
    (Constructed /\ udmis.num_vertices >= 1) =>
        \A i \in Vertices :
            energy_diff(udmis, u, i) = energy(Flip(udmis, i), u) - energy(udmis, u)

\* A step accepted the flip of a vertex that has an occupied neighbour, u = 1.35.
C1_Witness ==
    /\ pc = "running"
    /\ last.accepted
    /\ u = RefU
    /\ NumAdjacentOccupied(udmis, last.i) >= 1

(* C2 *)

\* C2: for every configuration of every graph with at least one vertex,
\* energy() is u times the number of edges with both endpoints occupied minus
\* the number of occupied vertices.
C2_EnergyCountsOnce ==
    (Constructed /\ udmis.num_vertices >= 1) =>
        energy(udmis, u) =
            u * Cardinality(OccupiedEdges) - UScale * Cardinality(OccupiedVertices)

\* The last vertex is occupied and is an endpoint of an occupied edge, u > 0.
C2_Witness ==
    /\ Constructed
    /\ udmis.num_vertices >= 2
    /\ u > 0
    /\ udmis.occupations[udmis.num_vertices - 1]
    /\ \E p \in OccupiedEdges : p[2] = udmis.num_vertices - 1

(* C3 *)

\* C3: edges[i][j] is true exactly when i /= j and the distance between the
\* vertices i and j is at most 1.0; so edges is symmetric and has no self-loop.
C3_UnitDiskAdjacency ==
    Constructed =>
        \A i \in Vertices : \A j \in Vertices :
            LET dx == udmis.graph[i][1] - udmis.graph[j][1]
                dy == udmis.graph[i][2] - udmis.graph[j][2]
            IN  /\ udmis.edges[i][j] <=> (i /= j /\ dx * dx + dy * dy <= 1000000)
                /\ udmis.edges[i][j] = udmis.edges[j][i]
                /\ ~udmis.edges[i][i]

\* A graph with a pair at distance exactly 1.0, adjacent, and a pair at squared
\* distance 1.000001, not adjacent.
C3_Witness ==
    /\ Constructed
    /\ \E i \in Vertices : \E j \in Vertices :
         Dist2(udmis.graph[i], udmis.graph[j]) = 1000000 /\ udmis.edges[i][j]
    /\ \E i \in Vertices : \E j \in Vertices :
         Dist2(udmis.graph[i], udmis.graph[j]) = 1000001 /\ ~udmis.edges[i][j]

(* C4 *)

\* C4: the energy returned by the latest step is energy() of the current
\* configuration, and a rejected proposal leaves the occupations as they were
\* and returns the energy of before the step.
C4_ReturnedEnergyIsEnergy ==
    /\ [](pc = "running" => E = energy(udmis, u))
    /\ [][(pc' = "running" /\ tick' /= tick /\ ~last'.accepted) =>
            /\ udmis' = udmis
            /\ E' = energy(udmis, u)
            /\ (pc = "running" => E' = E)]_vars

\* A proposal was rejected after an earlier step, the returned energy being the
\* energy of the configuration.
C4_Witness ==
    /\ pc = "running"
    /\ ~last.accepted
    /\ last.T > 0
    /\ Cardinality(OccupiedEdges) >= 1
    /\ E = energy(udmis, u)

(* C6 *)

\* C6: on the reference graph with u = 1.35 no configuration has energy below
\* -3.0, and [F, F, T, T, T, F] has energy -3.0.
C6_ReferenceMinimum ==
    (Constructed /\ IsReference) =>
        /\ energy(udmis, u) >= -300
        /\ udmis.occupations = RefOccupations => energy(udmis, u) = -300

\* A step on the reference graph returned -3.0 with occupations [F, F, T, T, T, F].
C6_Witness ==
    /\ pc = "running"
    /\ IsReference
    /\ udmis.occupations = RefOccupations
    /\ E = -300

(* C7 *)

\* C7 as stated: on the reference graph with u = 1.35 every configuration in
\* which every single-vertex flip raises the energy has energy -3.0.
C7_Original ==
    (Constructed /\ IsReference /\ AllFlipsPositive) => energy(udmis, u) = -300

\* C7 amended: on the reference graph with u = 1.35 every configuration in
\* which every single-vertex flip raises the energy is a maximal independent
\* set and has energy -3.0 or -2.0.
C7_SettledEnergies ==
    (Constructed /\ IsReference /\ AllFlipsPositive) =>
        /\ MaximalIndependent
        /\ energy(udmis, u) \in {-300, -200}

\* The chain sits in [F, T, F, T, F, F] at energy -2.0, where a proposal at
\* T = 0 was rejected and every flip raises the energy.
C7_Witness ==
    /\ pc = "running"
    /\ IsReference
    /\ AllFlipsPositive
    /\ ~last.accepted
    /\ last.T = 0
    /\ udmis.occupations =
         (0 :> FALSE) @@ (1 :> TRUE) @@ (2 :> FALSE) @@
         (3 :> TRUE) @@ (4 :> FALSE) @@ (5 :> FALSE)
    /\ E = -200

(* C8 *)

\* C8: a model constructed from an empty coordinate list or with u <= 0 is
\* rejected by the constructor, so no instance exists for such arguments.
C8_ConstructorRejects ==
    Constructed => (udmis.num_vertices >= 1 /\ udmis.u > 0)

(* C10 *)

\* C10: for u > 1 the configurations in which no single-vertex flip lowers the
\* energy are exactly the maximal independent sets, and a configuration of
\* minimum energy is an independent set of maximum size.
C10_SettledIsMaximalIndependent ==
    (Constructed /\ udmis.num_vertices >= 1 /\ u > UScale) =>
        /\ NoNegativeFlip <=> MaximalIndependent
        /\ (\A occ \in Occupations(udmis.num_vertices) :
                energy(udmis, u) <= energy(WithOccupations(occ), u))
           => /\ Independent
              /\ \A k \in IndependentSizes : k <= Cardinality(OccupiedVertices)

\* A minimum-energy configuration of a graph with edges: two occupied vertices,
\* an unoccupied vertex adjacent to one of them, u = 1.35.
C10_Witness ==
    /\ pc = "running"
    /\ u = RefU
    /\ graph /= RefGraph
    /\ MaximalIndependent
    /\ NoNegativeFlip
    /\ Cardinality(OccupiedVertices) = 2
    /\ \E i \in Vertices : ~udmis.occupations[i]
    /\ \A occ \in Occupations(udmis.num_vertices) :
         energy(udmis, u) <= energy(WithOccupations(occ), u)

(* C5 *)

\* The chain has settled: an instance exists (or the step has raised on an
\* empty one) and no single-vertex flip lowers the energy.
Settled ==
    /\ pc /= "start"
    /\ NoNegativeFlip

\* A step at T <= 0 accepts the proposed flip exactly when its energy_diff is
\* at most 0, and the energy does not increase.
GreedyRule ==
    (pc' = "running" /\ tick' /= tick /\ last'.T <= 0) =>
        /\ last'.accepted <=> energy_diff(udmis, u, last'.i) <= 0
        /\ energy(udmis', u) <= energy(udmis, u)

\* C5 as stated: at T <= 0 a flip is accepted iff its energy_diff is <= 0 and
\* the energy never increases; and when every vertex is proposed infinitely
\* often the chain eventually stays in configurations that no single flip
\* lowers.
C5_Original ==
    /\ [][GreedyRule]_vars
    /\ <>[]Settled

\* C5 amended: at T <= 0 a flip is accepted iff its energy_diff is <= 0 and the
\* energy never increases; and when, whenever energy-lowering flips are
\* available infinitely often, one of them is eventually proposed, the chain
\* eventually stays in configurations that no single flip lowers.
C5_GreedyLimit ==
    /\ [][GreedyRule]_vars
    /\ SF_vars(Descent) => <>[]Settled

\* A greedy step accepted a flip and left a configuration, with an occupied
\* and an unoccupied vertex, that no flip lowers.
C5_Witness ==
    /\ pc = "running"
    /\ last.T <= 0
    /\ last.accepted
    /\ Settled
    /\ udmis.num_vertices >= 3
    /\ \E i \in Vertices : udmis.occupations[i]
    /\ \E i \in Vertices : ~udmis.occupations[i]

(* C9 *)

\* C9: the edges, energy() and energy_diff(i) of an instance are those of the
\* u and the coordinate list passed to its constructor, whatever the
\* module-level names u and graph are bound to.
C9_OwnArgumentsOnly ==
    Constructed =>
        /\ udmis.edges = find_edges(udmis.num_vertices, udmis.graph)
        /\ udmis.num_vertices >= 1 =>
             /\ energy(udmis, u) = energy(udmis, udmis.u)
             /\ \A i \in Vertices :
                  energy_diff(udmis, u, i) = energy_diff(udmis, udmis.u, i)

=============================================================================
